---- MODULE Spec2Model ----
(***************************************************************************)
(* The elicitation workflow of src/app.py as a state machine.              *)
(*                                                                         *)
(* The state is Streamlit's st.session_state (one variable per key the     *)
(* code reads or writes), the heap of transcript lists (the code shares    *)
(* one Python list between the session and the record it saves, and        *)
(* appends to it in place), the clock that time.time() reads, and what    *)
(* the last script run showed the user.  Every user action is one script   *)
(* run, ended by st.rerun(); one action of the model is one such run.      *)
(***************************************************************************)
EXTENDS Integers, Sequences, FiniteSets, TLC

----------------------------------------------------------------------------
(* Bounds of the model.                                                    *)

\* number of record ids time.time() hands out
MaxChats == 2
\* transcript entries of the session, all conversations together
MaxMsgs == 6
\* most clarifying questions an Extract call returns
MaxQuestions == 2

----------------------------------------------------------------------------
(* Values.                                                                 *)

\* Python's None for current_chat_id; ids are
\* time.time() readings, all > 0.
None == 0
\* Python's None for final_doc, apart from every string Finalize returns.
NoDoc == "None"

Ids == 1..MaxChats
\* The transcript list objects.  A list is created in three places: by
\* init_session_state and by start_new_chat (messages = []), and by
\* handle_initial_request together with a new id.  The list created with
\* id k is named k; the empty list of a session without a record is named
\* Scratch (no record ever refers to it: ScratchUnshared).
Scratch == 0
Refs == {Scratch} \cup Ids

\* characters of the text inputs: a space, a newline, a letter
Whitespace == {" ", "\n"}
\* what the user types in the text area
Texts == {<<>>, <<" ">>, <<" ", "a">>}
\* what the user types in the chat input
Prompts == {<<>>, <<"a">>}
\* the uploaded file: none, one whose decoding raises, or its decoded text
Uploads == {[kind |-> "none", text |-> <<>>],
            [kind |-> "undecodable", text |-> <<>>],
            [kind |-> "decoded", text |-> <<"a", "\n">>]}

\* requirement lists the language model returns: from Extract, from Refine
ExtractedReqs == {<<"r1">>}
RefinedReqs == {<<"r1", "r2">>}
Questions == <<"q1", "q2", "q3">>
\* question lists the language model returns
QuestionLists == {SubSeq(Questions, 1, n) : n \in 0..MaxQuestions}
\* position of the priority slider the model tries (the slider offers 1..10)
SliderValues == {9}
\* text Finalize returns
FinalDocs == {"doc"}

Stages == {"initial", "clarification", "prioritization", "final_document"}

Range(s) == {s[i] : i \in 1..Len(s)}

\* one transcript entry {"role": ..., "content": ...}; the content is the
\* template the code fills, the number it prints and the texts it inserts
Msg(role, tpl, n, args) == [role |-> role, tpl |-> tpl, n |-> n, args |-> args]

----------------------------------------------------------------------------
(* State.                                                                  *)

VARIABLES
    chat_history,            \* the record collection, newest first
    current_chat_id,
    stage,
    messages,                \* reference to the session's transcript list
    requirements,
    clarification_questions,
    question_index,
    scores,
    final_doc,
    heap,                    \* the transcript list objects
    clock,                   \* the next reading of time.time()
    run                      \* what the last script run did and showed

session == <<current_chat_id, stage, messages, requirements,
             clarification_questions, question_index, scores, final_doc>>
vars == <<chat_history, current_chat_id, stage, messages, requirements,
          clarification_questions, question_index, scores, final_doc,
          heap, clock, run>>

NoScores == [r \in {} |-> 0]

\* what a script run did: the button or form that started it, the external
\* call it made, and the notice it ended with (st.warning, st.error, or the
\* exception Streamlit shows when the run raises)
Ran(action, call, notice) == [action |-> action, call |-> call, notice |-> notice]

Init ==
    /\ chat_history = <<>>
    /\ current_chat_id = None
    /\ stage = "initial"
    /\ messages = Scratch
    /\ requirements = <<>>
    /\ clarification_questions = <<>>
    /\ question_index = 0
    /\ scores = NoScores
    /\ final_doc = NoDoc
    /\ heap = [r \in Refs |-> <<>>]
    /\ clock = 1
    /\ run = Ran("init", "none", "none")

----------------------------------------------------------------------------
(* Python helpers.                                                         *)

\* str.strip(): leading and trailing whitespace removed
RECURSIVE LStrip(_)
LStrip(s) == IF s # <<>> /\ Head(s) \in Whitespace THEN LStrip(Tail(s)) ELSE s
RECURSIVE RStrip(_)
RStrip(s) ==
    IF s # <<>> /\ s[Len(s)] \in Whitespace THEN RStrip(SubSeq(s, 1, Len(s) - 1)) ELSE s
Strip(s) == RStrip(LStrip(s))

\* dict.get(key, default)
Get(d, key, default) == IF key \in DOMAIN d THEN d[key] ELSE default

\* truth value of final_doc: None and "" are false
DocShown(doc) == doc # NoDoc /\ doc # ""

\* the list objects some name still refers to
Live(hist, ref) == {ref} \cup {hist[i].messages : i \in 1..Len(hist)}
\* list objects nothing refers to are gone
Collect(h, live) == [r \in Refs |-> IF r \in live THEN h[r] ELSE <<>>]
\* the transcript entries there are
RECURSIVE Entries(_, _)
Entries(h, refs) ==
    IF refs = {} THEN 0
    ELSE LET r == CHOOSE x \in refs : TRUE IN Len(h[r]) + Entries(h, refs \ {r})

----------------------------------------------------------------------------
(* Session history management.                                             *)

\* a slip: the record is put in front without looking for its id
update_current_chat_in_history_Insert(hist, chat_data) ==
    IF chat_data.id # None THEN <<chat_data>> \o hist ELSE hist

\* chat_data of update_current_chat_in_history: the session's values, the
\* transcript by reference.  (The title, cut from the first user message,
\* is display text only and is left out.)
ChatData ==
    [id |-> current_chat_id, messages |-> messages, requirements |-> requirements,
     final_doc |-> final_doc, stage |-> stage,
     clarification_questions |-> clarification_questions,
     question_index |-> question_index, prioritization_scores |-> scores]

\* index of the first record with this id, -1 when there is none
ChatIndex(hist, chat_id) ==
    LET found == {i \in 1..Len(hist) : hist[i].id = chat_id}
    IN IF found = {} THEN -1 ELSE CHOOSE i \in found : \A j \in found : i <= j

update_current_chat_in_history(hist, chat_data) ==
    IF chat_data.id # None
    THEN LET chat_index == ChatIndex(hist, chat_data.id)
         IN IF chat_index # -1
            THEN [hist EXCEPT ![chat_index] = chat_data]
            ELSE <<chat_data>> \o hist
    ELSE hist

\* the end of a script run that wrote the transcripts h: the record is saved
\* from the session's new values when the handler saves, and list objects
\* nothing refers to any more are gone
Finish(h, saves) ==
    /\ chat_history' = IF saves
                       THEN update_current_chat_in_history(chat_history, ChatData')
                       ELSE chat_history
    /\ heap' = Collect(h, Live(chat_history', messages'))
    /\ Entries(heap', Refs) <= MaxMsgs

----------------------------------------------------------------------------
(* The external calls, as the handlers see them.                           *)

\* A call either raises (a transport error inside the call, text json.loads
\* rejects, or JSON that is no object, on which .get raises) or yields the
\* parsed object, whose keys may be missing.
Raised == [raised |-> TRUE, result |-> [k \in {} |-> <<>>]]
Returned(d) == [raised |-> FALSE, result |-> d]

\* json.loads(analyze_initial_request(user_input)); the objects tried all
\* carry 'initial_requirements' and may lack 'clarifying_questions'
ExtractDicts ==
    {[k \in K |-> IF k = "initial_requirements" THEN r ELSE q] :
        K \in {{"initial_requirements"}, {"initial_requirements", "clarifying_questions"}},
        r \in ExtractedReqs, q \in QuestionLists}
ExtractOutcomes == {Raised} \cup {Returned(d) : d \in ExtractDicts}

\* json.loads(refine_requirements_with_answer(requirements, current_q, answer))
RefineDicts ==
    {[k \in K |-> r] : K \in SUBSET {"updated_requirements"}, r \in RefinedReqs}
RefineOutcomes == {Raised} \cup {Returned(d) : d \in RefineDicts}

\* finalize_requirements_document(requirements, scores): raises or a text
FinalizeOutcomes ==
    {[raised |-> TRUE, doc |-> ""]} \cup {[raised |-> FALSE, doc |-> d] : d \in FinalDocs}

----------------------------------------------------------------------------
(* Logic handlers.                                                         *)

\* what a try block works on: the four workflow fields, the transcript it
\* appends to, and the notice the except branch shows
Work(msgs) ==
    [requirements |-> requirements,
     clarification_questions |-> clarification_questions,
     question_index |-> question_index, stage |-> stage,
     msgs |-> msgs, notice |-> "none"]

\* a slip: the stage is moved on whatever Extract returned
StageAfterExtract_AlwaysOn(questions) == "prioritization"

\* a slip: the overwrite for an empty question list is missing
StageAfterExtract_NoSkip(questions) == "clarification"

\* the stage handle_initial_request leaves: "clarification" is written
\* first and overwritten within the same run when there is no question
StageAfterExtract(questions) ==
    IF questions # <<>> THEN "clarification" ELSE "prioritization"

\* a slip: the except branch starts the clarification over
AnalysisFailed_Reset(w) ==
    [w EXCEPT !.notice = "error", !.requirements = <<>>, !.question_index = 0]

\* the except branch of handle_initial_request: st.error, nothing else
AnalysisFailed(w) == [w EXCEPT !.notice = "error"]

\* the try block of handle_initial_request
TryAnalyze(w, out) ==
    IF out.raised
    THEN AnalysisFailed(w)
    ELSE LET reqs == Get(out.result, "initial_requirements", <<>>)
             qs == Get(out.result, "clarifying_questions", <<>>)
             reply == IF qs # <<>>
                      THEN Msg("assistant", "more questions", 1, <<qs[1]>>)
                      ELSE Msg("assistant", "updates are clear", 0, <<>>)
         IN [requirements |-> reqs, clarification_questions |-> qs,
             question_index |-> 0, stage |-> StageAfterExtract(qs),
             msgs |-> Append(w.msgs, reply), notice |-> "none"]

handle_initial_request(user_input, out) ==
    LET fresh == current_chat_id = None
        msgs == IF fresh
                THEN <<Msg("user", "project idea", 0, <<>>)>>
                ELSE Append(heap[messages], Msg("user", "updates", 0, <<>>))
        ref == IF fresh THEN clock ELSE messages
        w == TryAnalyze(Work(msgs), out)
    IN /\ fresh => clock <= MaxChats
       /\ current_chat_id' = IF fresh THEN clock ELSE current_chat_id
       /\ clock' = IF fresh THEN clock + 1 ELSE clock
       /\ messages' = ref
       /\ requirements' = w.requirements
       /\ clarification_questions' = w.clarification_questions
       /\ question_index' = w.question_index
       /\ stage' = w.stage
       /\ UNCHANGED <<scores, final_doc>>
       /\ run' = Ran("start analysis", "extract", w.notice)
       /\ Finish([heap EXCEPT ![ref] = w.msgs], TRUE)

\* a slip: the index is advanced twice
IndexAfterRefine_Twice(q_index) == q_index + 2

\* question_index after a Refine call that returned
IndexAfterRefine(q_index) == q_index + 1

\* a slip: a failed answer uses up its question
RefineFailed_Skip(w) == [w EXCEPT !.notice = "error", !.question_index = @ + 1]

\* the except branch of handle_clarification_answer: st.error, nothing else
RefineFailed(w) == [w EXCEPT !.notice = "error"]

\* the try block of handle_clarification_answer
TryRefine(w, out) ==
    IF out.raised
    THEN RefineFailed(w)
    ELSE LET reqs == Get(out.result, "updated_requirements", w.requirements)
             q_index == IndexAfterRefine(w.question_index)
         IN IF q_index < Len(w.clarification_questions)
            THEN [w EXCEPT !.requirements = reqs, !.question_index = q_index,
                           !.msgs = Append(@, Msg("assistant", "next", q_index + 1,
                                                  <<w.clarification_questions[q_index + 1]>>))]
            ELSE [w EXCEPT !.requirements = reqs, !.question_index = q_index,
                           !.msgs = Append(@, Msg("assistant", "consolidated list", 0, reqs)),
                           !.stage = "prioritization"]

handle_clarification_answer(user_answer, out) ==
    LET msgs == Append(heap[messages], Msg("user", "answer", 0, user_answer))
        \* clarification_questions[q_index] is list position q_index + 1
        in_range == question_index + 1 \in 1..Len(clarification_questions)
        w == TryRefine(Work(msgs), out)
    IN /\ IF in_range
          THEN /\ requirements' = w.requirements
               /\ question_index' = w.question_index
               /\ stage' = w.stage
               /\ UNCHANGED <<current_chat_id, messages, clarification_questions,
                              scores, final_doc, clock>>
               /\ run' = Ran("answer", "refine", w.notice)
               /\ Finish([heap EXCEPT ![messages] = w.msgs], TRUE)
          ELSE \* IndexError before the try block: the run ends there
               /\ UNCHANGED <<current_chat_id, stage, messages, requirements,
                              clarification_questions, question_index, scores,
                              final_doc, clock>>
               /\ run' = Ran("answer", "none", "exception")
               /\ Finish([heap EXCEPT ![messages] = msgs], FALSE)

start_new_chat ==
    \* the old chat is saved, then the session is wiped; messages = [] is a
    \* new list object
    LET saved == update_current_chat_in_history(chat_history, ChatData)
    IN /\ chat_history' = saved
       /\ stage' = "initial"
       /\ messages' = Scratch
       /\ requirements' = <<>>
       /\ current_chat_id' = None
       /\ clarification_questions' = <<>>
       /\ question_index' = 0
       /\ scores' = NoScores
       /\ final_doc' = NoDoc
       /\ UNCHANGED clock
       /\ run' = Ran("new conversation", "none", "none")
       /\ heap' = Collect([heap EXCEPT ![Scratch] = <<>>], Live(saved, Scratch))

\* a slip: the stored question_index is not taken over
load_chat_KeepIndex(chat_id) ==
    LET saved == update_current_chat_in_history(chat_history, ChatData)
        chat_index == ChatIndex(saved, chat_id)
    IN /\ chat_history' = saved
       /\ IF chat_index # -1
          THEN LET chat_to_load == saved[chat_index]
               IN /\ messages' = chat_to_load.messages
                  /\ requirements' = chat_to_load.requirements
                  /\ final_doc' = chat_to_load.final_doc
                  /\ stage' = chat_to_load.stage
                  /\ clarification_questions' = chat_to_load.clarification_questions
          ELSE UNCHANGED <<messages, requirements, final_doc, stage,
                           clarification_questions>>
       /\ UNCHANGED <<current_chat_id, scores, clock, question_index>>
       /\ run' = Ran("open", "none", "none")
       /\ heap' = Collect(heap, Live(saved, messages'))

load_chat(chat_id) ==
    \* the session is saved, then every key of the stored record is copied
    \* into the session under the record's own key names: 'id' and
    \* 'prioritization_scores' (and 'title') become session keys that nothing
    \* reads, and current_chat_id and scores keep their values
    LET saved == update_current_chat_in_history(chat_history, ChatData)
        chat_index == ChatIndex(saved, chat_id)
    IN /\ chat_history' = saved
       /\ IF chat_index # -1
          THEN LET chat_to_load == saved[chat_index]
               IN /\ messages' = chat_to_load.messages
                  /\ requirements' = chat_to_load.requirements
                  /\ final_doc' = chat_to_load.final_doc
                  /\ stage' = chat_to_load.stage
                  /\ clarification_questions' = chat_to_load.clarification_questions
                  /\ question_index' = chat_to_load.question_index
          ELSE UNCHANGED <<messages, requirements, final_doc, stage,
                           clarification_questions, question_index>>
       /\ UNCHANGED <<current_chat_id, scores, clock>>
       /\ run' = Ran("open", "none", "none")
       /\ heap' = Collect(heap, Live(saved, messages'))

----------------------------------------------------------------------------
(* The chatbot page: one action per button or form of show_chatbot_page    *)
(* and of the sidebar.                                                     *)

\* a slip: the request is tested before it is stripped
Accepted_Unstripped(full_request) == full_request # <<>>

\* the test the form makes before it hands the request on
Accepted(full_request) == Strip(full_request) # <<>>

\* "Start Analysis" on the form shown in stage "initial"
StartAnalysis(user_text, uploaded_file) ==
    LET doc_content == IF uploaded_file.kind = "decoded" THEN uploaded_file.text ELSE <<>>
        full_request == user_text \o <<"\n", "\n">> \o doc_content
    IN /\ stage = "initial"
       /\ IF Accepted(full_request)
          THEN \E out \in ExtractOutcomes :
                  handle_initial_request(Strip(full_request), out)
          ELSE /\ run' = Ran("start analysis", "none", "warning")
               /\ UNCHANGED <<chat_history, session, heap, clock>>

\* "Generate Document" in stage "prioritization", with the sliders at sc
GenerateDocument(sc, out) ==
    /\ stage = "prioritization"
    /\ scores' = sc
    /\ IF out.raised
       THEN \* the exception ends the run after the scores were stored
            /\ UNCHANGED <<chat_history, current_chat_id, stage, messages,
                           requirements, clarification_questions, question_index,
                           final_doc, heap, clock>>
            /\ run' = Ran("generate", "finalize", "exception")
       ELSE /\ final_doc' = out.doc
            /\ stage' = "final_document"
            /\ UNCHANGED <<current_chat_id, messages, requirements,
                           clarification_questions, question_index, clock>>
            /\ run' = Ran("generate", "finalize", "none")
            /\ Finish([heap EXCEPT ![messages] =
                          Append(@, Msg("assistant", "document", 0, <<out.doc>>))], TRUE)

\* the chat input shown in stage "clarification"; an empty prompt is no
\* submission
ClarificationAnswer(prompt, out) ==
    /\ stage = "clarification"
    /\ prompt # <<>>
    /\ handle_clarification_answer(prompt, out)

\* "Update Requirements", shown whenever final_doc is a non-empty text
UpdateRequirements ==
    /\ DocShown(final_doc)
    /\ stage' = "initial"
    /\ UNCHANGED <<current_chat_id, messages, requirements, clarification_questions,
                   question_index, scores, final_doc, clock>>
    /\ run' = Ran("update", "none", "none")
    /\ Finish([heap EXCEPT ![messages] =
                  Append(@, Msg("assistant", "describe the changes", 0, <<>>))], TRUE)

\* "New Conversation" in the sidebar
NewConversation == start_new_chat

\* a title in the sidebar's history, or "Open" on the dashboard
OpenChat == \E i \in 1..Len(chat_history) : load_chat(chat_history[i].id)

Next ==
    \/ \E user_text \in Texts, uploaded_file \in Uploads :
           StartAnalysis(user_text, uploaded_file)
    \/ \E prompt \in Prompts, out \in RefineOutcomes : ClarificationAnswer(prompt, out)
    \/ \E sc \in [Range(requirements) -> SliderValues], out \in FinalizeOutcomes :
           GenerateDocument(sc, out)
    \/ UpdateRequirements
    \/ NewConversation
    \/ OpenChat

Spec == Init /\ [][Next]_vars

----------------------------------------------------------------------------
(* Soundness of the model's own naming and typing.                         *)

\* no record refers to the Scratch list, so start_new_chat's new empty list
\* may take its name
ScratchUnshared == \A i \in 1..Len(chat_history) : chat_history[i].messages # Scratch

TypeOK ==
    /\ current_chat_id \in {None} \cup Ids
    /\ stage \in Stages
    /\ messages \in Refs
    /\ question_index \in 0..MaxQuestions
    /\ final_doc \in {NoDoc} \cup FinalDocs
    /\ clock \in 1..(MaxChats + 1)
    /\ Entries(heap, Refs) <= MaxMsgs
    /\ Len(chat_history) <= MaxChats

----------------------------------------------------------------------------
(* What the claims speak of.                                               *)

\* the transcript the session shows
Transcript == heap[messages]
Last(seq) == seq[Len(seq)]
IsPrefix(a, b) == Len(a) <= Len(b) /\ SubSeq(b, 1, Len(a)) = a

\* the last run made the call and it returned / it raised
Succeeded(call) == run.call = call /\ run.notice = "none"
Failed(call) == run.call = call /\ run.notice \in {"error", "exception"}

----------------------------------------------------------------------------
(* C1: when handle_initial_request runs on a record in stage "initial" and *)
(* the Extract call returns, the stage it leaves is "clarification" if and *)
(* only if the returned question list is not empty, and then               *)
(* question_index is 0 and the first question is the one asked; with an    *)
(* empty list the stage it leaves is "prioritization".                     *)
C1_StageAfterAnalysis ==
    [][(stage = "initial" /\ Succeeded("extract")')
          => /\ (stage' = "clarification") <=> (clarification_questions' # <<>>)
             /\ clarification_questions' # <<>>
                   => /\ question_index' = 0
                      /\ Last(Transcript') = Msg("assistant", "more questions", 1,
                                                 <<clarification_questions'[1]>>)
             /\ clarification_questions' = <<>> => stage' = "prioritization"]_vars

\* an analysis without questions went straight to prioritization, while the
\* record of another conversation waits with its first question
C1_Witness ==
    /\ Succeeded("extract")
    /\ stage = "prioritization" /\ clarification_questions = <<>>
    /\ \E i \in 1..Len(chat_history) :
          /\ chat_history[i].stage = "clarification"
          /\ chat_history[i].question_index = 0
          /\ Len(chat_history[i].clarification_questions) = MaxQuestions

----------------------------------------------------------------------------
(* C2: a Refine call that returns raises question_index by exactly one, a  *)
(* Refine call that fails leaves it as it was, and question_index always   *)
(* lies between 0 and the number of clarification questions.               *)
IndexInRange(q_index, questions) == 0 <= q_index /\ q_index <= Len(questions)

C2_QuestionIndex ==
    /\ [](/\ IndexInRange(question_index, clarification_questions)
          /\ \A i \in 1..Len(chat_history) :
                IndexInRange(chat_history[i].question_index,
                             chat_history[i].clarification_questions))
    /\ [][/\ Succeeded("refine")' => question_index' = question_index + 1
          /\ Failed("refine")' => question_index' = question_index]_vars

\* the last of MaxQuestions answers has just been taken in
C2_Witness ==
    /\ Succeeded("refine")
    /\ question_index = MaxQuestions
    /\ Len(clarification_questions) = MaxQuestions

----------------------------------------------------------------------------
(* C3: "Update Requirements" on a record in stage "final_document" leaves  *)
(* stage "initial", the same record id, a transcript that holds every      *)
(* earlier entry in order and the note after them, and no final document;  *)
(* the re-analysis that follows keeps the id and the whole transcript.     *)
C3_UpdateKeepsRecord ==
    [][/\ (stage = "final_document" /\ run'.action = "update")
             => /\ stage' = "initial"
                /\ current_chat_id' = current_chat_id
                /\ Transcript' = Append(Transcript,
                                        Msg("assistant", "describe the changes", 0, <<>>))
                /\ final_doc' = NoDoc
       /\ (run.action = "update" /\ run'.action = "start analysis" /\ run'.call = "extract")
             => /\ current_chat_id' = current_chat_id
                /\ IsPrefix(Transcript, Transcript')]_vars

----------------------------------------------------------------------------
(* C4: when the Extract call or the Refine call fails, the stage, the      *)
(* requirements, the clarification questions and question_index are after  *)
(* the run exactly what they were before it.                               *)
C4_FailureKeepsWorkflow ==
    [][(Failed("extract")' \/ Failed("refine")')
          => /\ stage' = stage
             /\ requirements' = requirements
             /\ clarification_questions' = clarification_questions
             /\ question_index' = question_index]_vars

\* a Refine call has just failed midway through the questions, on
\* requirements an earlier answer had refined, and the other record is one
\* whose first analysis failed
C4_Witness ==
    /\ Failed("refine")
    /\ stage = "clarification" /\ question_index = 1
    /\ requirements \in RefinedReqs
    /\ \E i \in 1..Len(chat_history) :
          LET c == chat_history[i]
          IN /\ c.stage = "initial" /\ c.requirements = <<>>
             /\ Last(heap[c.messages]).role = "user"

----------------------------------------------------------------------------
(* C5: a failed external call (Extract, Refine or Finalize) leaves the     *)
(* whole record as it was: the transcript gains no entry, no record id is  *)
(* newly assigned, the stored priority scores do not change, and the       *)
(* record collection, transcripts included, is what it was.                *)
C5_FailureKeepsRecord ==
    [][(Failed("extract")' \/ Failed("refine")' \/ Failed("finalize")')
          => /\ Transcript' = Transcript
             /\ current_chat_id' = current_chat_id
             /\ scores' = scores
             /\ chat_history' = chat_history
             /\ \A i \in 1..Len(chat_history) :
                   heap'[chat_history[i].messages] = heap[chat_history[i].messages]]_vars

----------------------------------------------------------------------------
(* The record collection.                                                  *)

\* the record stored under an id
Stored(hist, chat_id) == {hist[i] : i \in {j \in 1..Len(hist) : hist[j].id = chat_id}}
\* the ids of the collection, in its order
IdsOf(hist) == [i \in 1..Len(hist) |-> hist[i].id]

\* a record holds what the session holds: every field, and the transcript
\* entry by entry
HoldsSession(c) ==
    /\ c.stage = stage
    /\ heap[c.messages] = Transcript
    /\ c.requirements = requirements
    /\ c.clarification_questions = clarification_questions
    /\ c.question_index = question_index
    /\ c.prioritization_scores = scores
    /\ c.final_doc = final_doc

\* The conversation the user is working on: the one whose transcript the
\* session shows.  Its transcript list was created together with its id.
WorkingOn == messages

\* the last run was a workflow transition that went through
Transition ==
    \/ Succeeded("extract") \/ Succeeded("refine") \/ Succeeded("finalize")
    \/ run.action = "update"

----------------------------------------------------------------------------
(* C6: after every workflow transition that went through (analysis,        *)
(* answer, document, update request), whatever new conversations and loads *)
(* came before, the collection holds a record under the id of the          *)
(* conversation the user is working on, and that record equals the active  *)
(* state field by field.                                                   *)
C6_TransitionIsSaved ==
    Transition => \E c \in Stored(chat_history, WorkingOn) : HoldsSession(c)

----------------------------------------------------------------------------
(* C7: selecting record B from the history first saves the active record   *)
(* under its own id and then makes B the active record: the active id is   *)
(* B's id, and stage, transcript, requirements, questions, question_index, *)
(* scores and final document are those stored in B.                        *)
C7_LoadMakesActive ==
    [][run'.action = "open"
          => /\ chat_history' = update_current_chat_in_history(chat_history, ChatData)
             /\ \E i \in 1..Len(chat_history') :
                   LET B == chat_history'[i]
                   IN /\ current_chat_id' = B.id
                      /\ messages' = B.messages
                      /\ stage' = B.stage
                      /\ requirements' = B.requirements
                      /\ clarification_questions' = B.clarification_questions
                      /\ question_index' = B.question_index
                      /\ scores' = B.prioritization_scores
                      /\ final_doc' = B.final_doc]_vars

----------------------------------------------------------------------------
(* C8: no two records of the collection have the same id; a run either     *)
(* leaves the ids of the collection and their order as they were (a save   *)
(* under an id already there replaces that record in place) or puts one    *)
(* record with a new id in front.                                          *)
C8_IdsUnique ==
    /\ [](\A i, j \in 1..Len(chat_history) :
             chat_history[i].id = chat_history[j].id => i = j)
    /\ [][\/ IdsOf(chat_history') = IdsOf(chat_history)
          \/ /\ Len(chat_history') = Len(chat_history) + 1
             /\ chat_history'[1].id = current_chat_id'
             /\ chat_history'[1].id \notin Range(IdsOf(chat_history))
             /\ Tail(chat_history') = chat_history]_vars

\* two records, the newer one put in front and then saved again in place
\* after an answer
C8_Witness ==
    /\ Len(chat_history) = 2
    /\ current_chat_id = chat_history[1].id
    /\ Succeeded("refine")
    /\ chat_history[1].question_index = 1

----------------------------------------------------------------------------
(* C9: in stage "initial", a submission whose text is empty or all         *)
(* whitespace and that comes with no document, or with one that cannot be  *)
(* decoded, is rejected: no handler runs, no external call is made, and    *)
(* the stage, transcript, record id, requirements and record collection    *)
(* are unchanged, the stage still being "initial".                         *)
BlankTexts == {t \in Texts : Strip(t) = <<>>}
NoDocument == {u \in Uploads : u.kind \in {"none", "undecodable"}}

C9_BlankSubmissionRejected ==
    [][(/\ stage = "initial"
        /\ \E user_text \in BlankTexts, uploaded_file \in NoDocument :
              StartAnalysis(user_text, uploaded_file))
           => /\ run' = Ran("start analysis", "none", "warning")
              /\ stage' = "initial"
              /\ UNCHANGED <<chat_history, session, heap, clock>>]_vars

\* a blank submission has just been turned away in a session that has a
\* record to lose
C9_Witness ==
    /\ run = Ran("start analysis", "none", "warning")
    /\ stage = "initial"
    /\ current_chat_id # None /\ Len(Transcript) > 1 /\ requirements # <<>>

----------------------------------------------------------------------------
(* C10: in the active state and in every record of the collection, stage   *)
(* "prioritization" comes with question_index equal to the number of       *)
(* clarification questions (zero questions included).                      *)
C10_PrioritizationAfterQuestions ==
    /\ stage = "prioritization" => question_index = Len(clarification_questions)
    /\ \A i \in 1..Len(chat_history) :
          chat_history[i].stage = "prioritization"
             => chat_history[i].question_index = Len(chat_history[i].clarification_questions)

\* the session reached prioritization by answering its questions, and a
\* record went there without any question
C10_Witness ==
    /\ stage = "prioritization"
    /\ question_index >= 1 /\ Len(clarification_questions) = question_index
    /\ \E i \in 1..Len(chat_history) :
          /\ chat_history[i].stage = "prioritization"
          /\ chat_history[i].clarification_questions = <<>>

----------------------------------------------------------------------------
(* C11: the final document stored under a record id is written only by a   *)
(* "Generate Document" run that starts in stage "prioritization" and whose *)
(* Finalize call returned, and that run leaves stage "final_document"; a   *)
(* run whose Finalize call failed leaves final_doc and the stage as they   *)
(* were.                                                                   *)

\* the final document stored under an id: None while there is no record
FinalDocOf(hist, chat_id) ==
    IF Stored(hist, chat_id) = {} THEN NoDoc
    ELSE (CHOOSE c \in Stored(hist, chat_id) : TRUE).final_doc

C11_DocumentOnlyByGenerate ==
    [][/\ \A chat_id \in Ids :
             FinalDocOf(chat_history', chat_id) # FinalDocOf(chat_history, chat_id)
                => /\ stage = "prioritization"
                   /\ run'.action = "generate" /\ Succeeded("finalize")'
                   /\ stage' = "final_document"
                   /\ current_chat_id' = chat_id
       /\ Failed("finalize")' => final_doc' = final_doc /\ stage' = stage]_vars

----------------------------------------------------------------------------
(* C12: the question_index stored under a record id never gets smaller:    *)
(* whatever the run (a re-analysis after "Update Requirements" included),  *)
(* a record that is in the collection before and after it has afterwards   *)
(* a question_index at least as large as before.                           *)
C12_IndexNeverDecreases ==
    [][\A i \in 1..Len(chat_history), j \in 1..Len(chat_history') :
          chat_history'[j].id = chat_history[i].id
             => chat_history'[j].question_index >= chat_history[i].question_index]_vars

----------------------------------------------------------------------------
(* The dashboard page: get_dashboard_data of src/dashboard_utils.py.       *)
(*                                                                         *)
(* The function is pure.  It is checked under a specification of its own,  *)
(* DashSpec, whose initial states hold the record collections it is tried  *)
(* on and whose one action is a script run that shows the dashboard page.  *)

\* collections tried for the counts: up to this many records
MaxProjects == 4
\* collections tried for the recent projects: up to this many records
MaxRecent == 6

Min(a, b) == IF a <= b THEN a ELSE b

\* what a record holds besides its id, as far as the dashboard reads it: the
\* requirements and the scores.  In order: the spec's scenario; scores at
\* each threshold, with a key of no current requirement; an empty score
\* mapping; no score mapping; a score for one requirement of two; no
\* requirement at all.
DashKinds ==
    {[requirements |-> <<"a", "b">>, prioritization_scores |-> [a |-> 9, b |-> 3]],
     [requirements |-> <<"c", "d", "e">>,
      prioritization_scores |-> [c |-> 8, d |-> 5, e |-> 4, z |-> 10]],
     [requirements |-> <<"a", "b">>, prioritization_scores |-> NoScores],
     [requirements |-> <<"a">>],
     [requirements |-> <<"a", "b">>, prioritization_scores |-> [a |-> 8]],
     [requirements |-> <<>>, prioritization_scores |-> NoScores]}

\* a record of that content with that id
DashChat(kind, chat_id) ==
    [k \in DOMAIN kind \cup {"id"} |-> IF k = "id" THEN chat_id ELSE kind[k]]

\* collections as update_current_chat_in_history builds them, newest first
CountInputs ==
    UNION {{[i \in 1..n |-> DashChat(kinds[i], n + 1 - i)] : kinds \in [1..n -> DashKinds]} :
              n \in 0..MaxProjects}
\* collections of one content in every order of their ids
RecentInputs ==
    UNION {{[i \in 1..n |-> DashChat([requirements |-> <<"a">>], order[i])] :
               order \in Permutations(1..n)} : n \in 0..MaxRecent}
DashInputs == CountInputs \cup RecentInputs

\* a slip: a score of exactly 8 is only High
Priority_Above(score) ==
    IF score > 8 THEN "Critical" ELSE IF score >= 5 THEN "High" ELSE "Medium"

\* the class of a score
Priority(score) ==
    IF score >= 8 THEN "Critical" ELSE IF score >= 5 THEN "High" ELSE "Medium"

\* a slip: the classes are taken per score key, not per requirement
ChatPriorities_PerKey(chat) ==
    LET chat_scores == Get(chat, "prioritization_scores", NoScores)
        keys == CHOOSE q \in [1..Cardinality(DOMAIN chat_scores) -> DOMAIN chat_scores] :
                    \A i, j \in DOMAIN q : q[i] = q[j] => i = j
    IN [i \in DOMAIN keys |-> Priority(chat_scores[keys[i]])]

\* the classes the loop body counts for one record, in the order of its
\* requirements: none when the score mapping is empty or absent
ChatPriorities(chat) ==
    LET chat_requirements == Get(chat, "requirements", <<>>)
        chat_scores == Get(chat, "prioritization_scores", NoScores)
    IN IF DOMAIN chat_scores # {}
       THEN [i \in 1..Len(chat_requirements) |->
                Priority(Get(chat_scores, chat_requirements[i], 0))]
       ELSE <<>>

\* priority_distribution[p] after the loop over the records
RECURSIVE priority_distribution(_, _)
priority_distribution(chats, p) ==
    IF chats = <<>> THEN 0
    ELSE LET counted == ChatPriorities(Head(chats))
         IN Cardinality({i \in 1..Len(counted) : counted[i] = p})
               + priority_distribution(Tail(chats), p)

\* total_requirements after the loop
RECURSIVE total_requirements(_)
total_requirements(chats) ==
    IF chats = <<>> THEN 0
    ELSE Len(Get(Head(chats), "requirements", <<>>)) + total_requirements(Tail(chats))

\* a slip: the digits after the first decimal are cut off
Round1_Cut(num, den) == (10 * num) \div den

\* round(num / den, 1), in tenths.  Python rounds the quotient to the
\* nearest tenth and a tie to the even one; the float quotient stands for the
\* exact one here, since up to 7 records a tie is a multiple of 1/4, which a
\* float holds exactly.
Round1(num, den) ==
    LET q == (10 * num) \div den
        rest == (10 * num) % den
    IN IF 2 * rest < den THEN q
       ELSE IF 2 * rest > den THEN q + 1
       ELSE IF q % 2 = 0 THEN q ELSE q + 1

\* a slip: the records are left in the order of the collection
SortedById_AsGiven(chats) == chats

\* sorted(chats, key=lambda x: x.get('id', 0), reverse=True): a new list,
\* largest id first, records of equal id in their order in chats
RECURSIVE SortedById(_)
SortedById(chats) ==
    IF chats = <<>> THEN <<>>
    ELSE LET n == Len(chats)
             x == chats[n]
             front == SortedById(SubSeq(chats, 1, n - 1))
             ahead == {i \in 1..(n - 1) : Get(front[i], "id", 0) >= Get(x, "id", 0)}
             k == Cardinality(ahead)
         IN SubSeq(front, 1, k) \o <<x>> \o SubSeq(front, k + 1, n - 1)

\* the slice [:5]
RecentShown == 5

\* the rows of the DataFrame priority_counts
PriorityRows(critical, high, medium) ==
    <<[Priority |-> "Critical", Count |-> critical],
      [Priority |-> "High", Count |-> high],
      [Priority |-> "Medium", Count |-> medium]>>

\* the dictionary returned; avg_requirements_per_project is in tenths
get_dashboard_data(chats) ==
    IF chats = <<>>
    THEN [total_projects |-> 0, total_requirements |-> 0,
          avg_requirements_per_project |-> 0,
          priority_counts |-> PriorityRows(0, 0, 0),
          recent_projects |-> <<>>]
    ELSE LET total_projects == Len(chats)
             sorted == SortedById(chats)
         IN [total_projects |-> total_projects,
             total_requirements |-> total_requirements(chats),
             avg_requirements_per_project |->
                 IF total_projects > 0
                 THEN Round1(total_requirements(chats), total_projects) ELSE 0,
             priority_counts |-> PriorityRows(priority_distribution(chats, "Critical"),
                                              priority_distribution(chats, "High"),
                                              priority_distribution(chats, "Medium")),
             recent_projects |-> SubSeq(sorted, 1, Min(RecentShown, Len(sorted)))]

\* a script run on the dashboard page: what it shows is the data
Showed(dashboard_data) ==
    [action |-> "dashboard", call |-> "none", notice |-> "none", data |-> dashboard_data]

show_dashboard_page ==
    /\ run' = Showed(get_dashboard_data(chat_history))
    /\ UNCHANGED <<chat_history, session, heap, clock>>

DashInit ==
    /\ chat_history \in DashInputs
    /\ current_chat_id = None
    /\ stage = "initial"
    /\ messages = Scratch
    /\ requirements = <<>>
    /\ clarification_questions = <<>>
    /\ question_index = 0
    /\ scores = NoScores
    /\ final_doc = NoDoc
    /\ heap = [r \in Refs |-> <<>>]
    /\ clock = 1
    /\ run = Ran("init", "none", "none")

DashNext == show_dashboard_page

DashSpec == DashInit /\ [][DashNext]_vars

----------------------------------------------------------------------------
(* What the dashboard claims speak of.                                     *)

\* the dashboard is on the screen
Shown == run.action = "dashboard"
\* the count shown for a class
CountShown(p) ==
    LET rows == run.data.priority_counts
    IN (CHOOSE row \in Range(rows) : row.Priority = p).Count

\* the requirements of the collection, each with its place
Places(chats) ==
    {<<i, j>> \in (1..Len(chats)) \X (1..3) : j <= Len(Get(chats[i], "requirements", <<>>))}
\* the score recorded for the requirement at a place, 0 when there is none
ScoreAt(chats, place) ==
    LET chat == chats[place[1]]
    IN Get(Get(chat, "prioritization_scores", NoScores), chat.requirements[place[2]], 0)
\* the requirement at the place has a recorded score
Scored(chats, place) ==
    LET chat == chats[place[1]]
    IN chat.requirements[place[2]] \in DOMAIN Get(chat, "prioritization_scores", NoScores)

----------------------------------------------------------------------------
(* C13: the Medium count shown is the number of requirements, over all     *)
(* records, whose score with 0 for a missing one is below 5: every         *)
(* requirement without a recorded score counts as Medium, also in a record *)
(* whose score mapping is empty or absent.                                 *)
C13_UnscoredCountMedium ==
    Shown => CountShown("Medium") =
                Cardinality({place \in Places(chat_history) : ScoreAt(chat_history, place) < 5})

----------------------------------------------------------------------------
(* C14: for a non-empty collection in which every requirement has a score, *)
(* the three counts shown add up to total_requirements, which is the sum   *)
(* of the records' requirement counts; and the counts are those of the     *)
(* same collection without the score keys of no current requirement.       *)
AllScored(chats) == \A place \in Places(chats) : Scored(chats, place)

\* the record without its stale score keys
WithoutStale(chat) ==
    IF "prioritization_scores" \in DOMAIN chat
    THEN [chat EXCEPT !.prioritization_scores =
             [r \in DOMAIN @ \cap Range(chat.requirements) |-> @[r]]]
    ELSE chat
HasStale(chat) == WithoutStale(chat) # chat

C14_CountsSumToTotal ==
    (Shown /\ chat_history # <<>> /\ AllScored(chat_history))
       => /\ CountShown("Critical") + CountShown("High") + CountShown("Medium")
                = run.data.total_requirements
          /\ run.data.total_requirements = Cardinality(Places(chat_history))
          /\ run.data.priority_counts =
                get_dashboard_data([i \in 1..Len(chat_history) |->
                                       WithoutStale(chat_history[i])]).priority_counts

\* the dashboard of several fully scored records, one of them with a stale
\* score key
C14_Witness ==
    /\ Shown /\ Len(chat_history) >= 2 /\ AllScored(chat_history)
    /\ \E i \in 1..Len(chat_history) : HasStale(chat_history[i])
    /\ run.data.total_requirements >= 5

----------------------------------------------------------------------------
(* C15: for a collection whose requirements all have a score in 1..10,     *)
(* Critical is the number of requirements with score >= 8, High the number *)
(* with 5 <= score < 8 and Medium the number with score < 5, over all      *)
(* records, and total_requirements is the number of requirements; one      *)
(* record [a, b] with scores {a: 9, b: 3} shows 1, 0, 1 and total 2.       *)
ScoredInRange(chats) ==
    \A place \in Places(chats) :
        Scored(chats, place) /\ ScoreAt(chats, place) \in 1..10
NumberWith(chats, lo, hi) ==
    Cardinality({place \in Places(chats) :
                    lo <= ScoreAt(chats, place) /\ ScoreAt(chats, place) <= hi})
Scenario ==
    <<[id |-> 1, requirements |-> <<"a", "b">>, prioritization_scores |-> [a |-> 9, b |-> 3]]>>

C15_CountsByThreshold ==
    /\ (Shown /\ ScoredInRange(chat_history))
          => /\ CountShown("Critical") = NumberWith(chat_history, 8, 10)
             /\ CountShown("High") = NumberWith(chat_history, 5, 7)
             /\ CountShown("Medium") = NumberWith(chat_history, 1, 4)
             /\ run.data.total_requirements = Cardinality(Places(chat_history))
    /\ (Shown /\ chat_history = Scenario)
          => /\ run.data.priority_counts = PriorityRows(1, 0, 1)
             /\ run.data.total_requirements = 2

\* the dashboard of scored records with a requirement in each class, among
\* them scores of exactly 8 and exactly 5
C15_Witness ==
    /\ Shown /\ ScoredInRange(chat_history) /\ Len(chat_history) >= 2
    /\ \E place \in Places(chat_history) : ScoreAt(chat_history, place) = 8
    /\ \E place \in Places(chat_history) : ScoreAt(chat_history, place) = 5
    /\ CountShown("Critical") >= 2 /\ CountShown("Medium") >= 2

----------------------------------------------------------------------------
(* C16: avg_requirements_per_project is 0 for the empty collection; for a  *)
(* collection of n > 0 records it is total_requirements / n to the nearest *)
(* tenth, total_projects being n and total_requirements the sum of the     *)
(* records' requirement counts.  (The average is held in tenths.)          *)
Abs(x) == IF x < 0 THEN -x ELSE x

C16_Average ==
    Shown =>
       IF chat_history = <<>>
       THEN run.data.avg_requirements_per_project = 0
       ELSE /\ run.data.total_projects = Len(chat_history)
            /\ run.data.total_requirements = Cardinality(Places(chat_history))
            /\ 2 * Abs(run.data.avg_requirements_per_project * run.data.total_projects
                          - 10 * run.data.total_requirements) <= run.data.total_projects

\* two requirements in three records: 0.666... is shown as 0.7
C16_Witness ==
    /\ Shown /\ Len(chat_history) = 3
    /\ run.data.total_requirements = 2
    /\ run.data.avg_requirements_per_project = 7

----------------------------------------------------------------------------
(* C17: for a collection of n records recent_projects has min(5, n)        *)
(* entries, each a record of the collection and none twice, in descending  *)
(* order of id; no record left out has a larger id than one that is in;    *)
(* and showing the dashboard leaves the collection as it was.              *)
C17_RecentProjects ==
    /\ [](Shown =>
            LET recent == run.data.recent_projects
                n == Len(chat_history)
            IN /\ Len(recent) = Min(5, n)
               /\ Range(recent) \subseteq Range(chat_history)
               /\ \A i, j \in 1..Len(recent) :
                     /\ i < j => recent[i].id >= recent[j].id
                     /\ recent[i] = recent[j] => i = j
               /\ \A out \in Range(chat_history) \ Range(recent), in \in Range(recent) :
                     out.id <= in.id)
    /\ [][chat_history' = chat_history]_vars

\* six records with the oldest first: it is the one left out, and the
\* newest, last in the collection, is shown first
C17_Witness ==
    /\ Shown /\ Len(chat_history) = 6
    /\ chat_history[1].id = 1 /\ chat_history[6].id = 6
    /\ run.data.recent_projects[1].id = 6
    /\ Len(run.data.recent_projects) = 5

----------------------------------------------------------------------------
(* The chat input with whitespace.  st.chat_input hands over whatever text *)
(* was sent, and a text of spaces only is a non-empty string; AnswerSpec   *)
(* is Spec with such answers among the prompts.                            *)
AnswerPrompts == Prompts \cup {<<" ">>}

AnswerNext ==
    \/ Next
    \/ \E prompt \in AnswerPrompts, out \in RefineOutcomes : ClarificationAnswer(prompt, out)

AnswerSpec == Init /\ [][AnswerNext]_vars

----------------------------------------------------------------------------
(* C18: in stage "clarification" an answer that is empty or all whitespace *)
(* is rejected: no Refine call is made, and the transcript, requirements,  *)
(* question_index, stage and record collection are unchanged.              *)
BlankPrompts == {prompt \in AnswerPrompts : Strip(prompt) = <<>>}

C18_BlankAnswerRejected ==
    [][(/\ stage = "clarification"
        /\ \E prompt \in BlankPrompts, out \in RefineOutcomes :
              ClarificationAnswer(prompt, out))
           => /\ run'.call # "refine"
              /\ UNCHANGED <<chat_history, session, heap>>]_vars

----------------------------------------------------------------------------
(* C19: once a record is selected from the history it is the one worked    *)
(* on, and a workflow run (analysis, answer, document, update request)     *)
(* with its save changes at most the entry stored under that record's id:  *)
(* every entry under another id, the previously active one included, keeps *)
(* its stage, transcript, requirements, scores and final document.         *)
WorkflowRuns == {"start analysis", "answer", "generate", "update"}

C19_OtherRecordsKept ==
    [][run'.action \in WorkflowRuns
          => \A i \in 1..Len(chat_history) :
                chat_history[i].id # WorkingOn'
                   => /\ \E j \in 1..Len(chat_history') : chat_history'[j] = chat_history[i]
                      /\ heap'[chat_history[i].messages] = heap[chat_history[i].messages]]_vars

----------------------------------------------------------------------------
(* C20: the stage stored under a record id changes only along the edges    *)
(* initial -> clarification, initial -> prioritization, clarification ->   *)
(* prioritization, prioritization -> final_document and final_document ->  *)
(* initial; "Update Requirements" moves the stage to "initial" only from   *)
(* "final_document", and is not on offer in stage "clarification" or       *)
(* "prioritization".                                                       *)
Edges ==
    {<<"initial", "clarification">>, <<"initial", "prioritization">>,
     <<"clarification", "prioritization">>, <<"prioritization", "final_document">>,
     <<"final_document", "initial">>}

C20_StageEdges ==
    /\ [](stage \in {"clarification", "prioritization"} => ~DocShown(final_doc))
    /\ [][/\ \A i \in 1..Len(chat_history), j \in 1..Len(chat_history') :
                chat_history'[j].id = chat_history[i].id
                   => \/ chat_history'[j].stage = chat_history[i].stage
                      \/ <<chat_history[i].stage, chat_history'[j].stage>> \in Edges
          /\ (run'.action = "update" /\ stage' # stage) => stage = "final_document"]_vars

----------------------------------------------------------------------------
(* C22: whenever the active stage is "clarification", whatever submissions,*)
(* answers, failures, updates, new conversations and loads came before,    *)
(* question_index is below the number of clarification questions, and no   *)
(* run of handle_clarification_answer ends on a lookup out of range.       *)
C22_CurrentQuestionExists ==
    /\ stage = "clarification" => question_index < Len(clarification_questions)
    /\ run.action = "answer" => run.notice # "exception"

\* a record with its first question answered and the second one open has
\* just been opened again over a session that was further on
C22_Witness ==
    /\ run.action = "open" /\ stage = "clarification"
    /\ question_index = 1 /\ Len(clarification_questions) = 2
    /\ \E i \in 1..Len(chat_history) :
          /\ chat_history[i].messages # messages
          /\ chat_history[i].stage = "prioritization"

----------------------------------------------------------------------------
(* The clarification dialogue of one conversation.  ClarifySpec follows    *)
(* one session that stays with its conversation (no "New Conversation", no *)
(* load from the history) through requests, answers, document and update   *)
(* requests.  Failed calls lengthen the transcript without end; they are   *)
(* capped so that the answers still to come fit under MaxMsgs (Room).  The *)
(* fairness condition is the hypothesis of the progress claim: the user    *)
(* goes on answering, and an answer is in the end processed with success.  *)

\* every open question still has room for its answer and the reply to it
Room ==
    Entries(heap, Refs) + 2 * (Len(clarification_questions) - question_index) <= MaxMsgs

DialogueAnalysis(user_text, uploaded_file) ==
    /\ StartAnalysis(user_text, uploaded_file)
    /\ stage' = "clarification" => Room'

DialogueAnswer(prompt, out) ==
    /\ ClarificationAnswer(prompt, out)
    /\ stage' = "clarification" => Room'

\* an answer is processed with success
AnswerTaken ==
    \E prompt \in AnswerPrompts, out \in RefineOutcomes :
        ~out.raised /\ DialogueAnswer(prompt, out)

ClarifyNext ==
    \/ \E user_text \in Texts, uploaded_file \in Uploads :
           DialogueAnalysis(user_text, uploaded_file)
    \/ \E prompt \in AnswerPrompts, out \in RefineOutcomes : DialogueAnswer(prompt, out)
    \/ \E sc \in [Range(requirements) -> SliderValues], out \in FinalizeOutcomes :
           GenerateDocument(sc, out)
    \/ UpdateRequirements

ClarifySpec == Init /\ [][ClarifyNext]_vars /\ WF_vars(AnswerTaken)

----------------------------------------------------------------------------
(* C21: after an analysis that returned n >= 1 questions the stage is      *)
(* "clarification" until n Refine calls have returned, question_index      *)
(* counting them, and the n-th moves it to "prioritization"; the questions *)
(* are put in the transcript in list order, each once, the first by the    *)
(* analysis and the next by each Refine call that returned; a Refine call  *)
(* that failed leaves the same question open; and when answers go on being *)
(* processed with success, "prioritization" is reached.                    *)

\* the question the next answer is processed against
CurrentQuestion == clarification_questions[question_index + 1]
\* the places of the transcript, from the last analysis on, that put
\* question k
AskedAt(k) ==
    LET start == CHOOSE i \in 1..Len(Transcript) :
                    /\ Transcript[i].tpl \in {"more questions", "updates are clear"}
                    /\ \A j \in (i + 1)..Len(Transcript) :
                          Transcript[j].tpl \notin {"more questions", "updates are clear"}
    IN {i \in start..Len(Transcript) :
           /\ Transcript[i].tpl \in {"more questions", "next"}
           /\ Transcript[i].n = k
           /\ Transcript[i].args = <<clarification_questions[k]>>}
\* questions 1 .. question_index + 1 were put once each and in that order,
\* the later ones not yet
AskedInOrder ==
    /\ \A k \in 1..Len(clarification_questions) :
          Cardinality(AskedAt(k)) = IF k <= question_index + 1 THEN 1 ELSE 0
    /\ \A k, l \in 1..(question_index + 1) :
          k < l => \A i \in AskedAt(k), j \in AskedAt(l) : i < j

====
